---- MODULE Spec2Model ----
(***************************************************************************)
(* Model of src/agent.py: the bounded-turn agent loop (agent_loop), the    *)
(* action parser (try_extract_json) and the guarded command executor       *)
(* (run_shell_command).                                                    *)
(*                                                                         *)
(* Python strings are modelled as sequences of one-character strings, so   *)
(* that strip(), the regular expressions and the JSON decoder are computed *)
(* character by character as the code computes them.                       *)
(***************************************************************************)
EXTENDS Integers, Sequences, FiniteSets, TLC

----------------------------------------------------------------------------
(* Bounds of the model.                                                    *)

\* max_steps argument of agent_loop (MAX_STEPS = 200 in the source).
MaxSteps == 4

----------------------------------------------------------------------------
(* Characters.                                                             *)

DQ == "\""
SQ == "'"

Whitespace == {" ", "\t", "\n", "\r"}

LowerLetters ==
    <<"a","b","c","d","e","f","g","h","i","j","k","l","m",
      "n","o","p","q","r","s","t","u","v","w","x","y","z">>

UpperLetters ==
    <<"A","B","C","D","E","F","G","H","I","J","K","L","M",
      "N","O","P","Q","R","S","T","U","V","W","X","Y","Z">>

Digits == {"0","1","2","3","4","5","6","7","8","9"}

Range(s) == {s[i] : i \in DOMAIN s}

\* \w of Python's re module, restricted to ASCII.
IsWordChar(c) ==
    c \in Range(LowerLetters) \cup Range(UpperLetters) \cup Digits \cup {"_"}

\* Case folding used by re.IGNORECASE.
Lower(c) ==
    IF c \in Range(UpperLetters)
    THEN LowerLetters[CHOOSE i \in DOMAIN UpperLetters : UpperLetters[i] = c]
    ELSE c

LowerStr(s) == [i \in DOMAIN s |-> Lower(s[i])]

----------------------------------------------------------------------------
(* String helpers: str.strip, str.find, str.rfind, the "in" operator.      *)

\* str.strip(): drop leading and trailing whitespace.
Strip(s) ==
    LET nonws == {i \in DOMAIN s : s[i] \notin Whitespace}
    IN  IF nonws = {} THEN <<>>
        ELSE LET lo == CHOOSE i \in nonws : \A j \in nonws : i <= j
                 hi == CHOOSE i \in nonws : \A j \in nonws : j <= i
             IN  SubSeq(s, lo, hi)

\* True iff pat occurs in s starting at index i.
OccursAt(pat, s, i) ==
    /\ i >= 1
    /\ i + Len(pat) - 1 <= Len(s)
    /\ \A k \in 1..Len(pat) : s[i + k - 1] = pat[k]

\* "pat in s"
Contains(pat, s) == \E i \in 1..(Len(s) + 1) : OccursAt(pat, s, i)

\* str.find(c): index of the first occurrence of character c, 0 if none
\* (Python's -1, shifted to 1-based indices).
Find(s, c) ==
    LET hits == {i \in DOMAIN s : s[i] = c}
    IN  IF hits = {} THEN 0 ELSE CHOOSE i \in hits : \A j \in hits : i <= j

\* str.rfind(c): index of the last occurrence of character c, 0 if none.
RFind(s, c) ==
    LET hits == {i \in DOMAIN s : s[i] = c}
    IN  IF hits = {} THEN 0 ELSE CHOOSE i \in hits : \A j \in hits : j <= i

----------------------------------------------------------------------------
(* Guardrail patterns.                                                     *)

\* The words of PROHIBITED_PATTERNS; r"\b(nc|ncat)\b" contributes two words.
PROHIBITED_PATTERNS ==
    << <<"r","m">>, <<"m","v">>, <<"d","d">>, <<"c","h","m","o","d">>,
       <<"s","u","d","o">>, <<"c","u","r","l">>, <<"w","g","e","t">>,
       <<"s","s","h">>, <<"s","c","p">>, <<"p","i","n","g">>,
       <<"n","c">>, <<"n","c","a","t">>,
       <<"i","f","c","o","n","f","i","g">>, <<"i","p">>,
       <<"t","c","p","d","u","m","p">>, <<"g","i","t">> >>

\* re.search(r"\bword\b", cmd): the word occurs with a word boundary on
\* both sides (every word starts and ends with a word character).
WordSearch(word, cmd) ==
    \E i \in 1..Len(cmd) :
        /\ OccursAt(word, cmd, i)
        /\ (i = 1 \/ ~IsWordChar(cmd[i - 1]))
        /\ (i + Len(word) > Len(cmd) \/ ~IsWordChar(cmd[i + Len(word)]))

MatchesProhibited(cmd) ==
    \E p \in DOMAIN PROHIBITED_PATTERNS : WordSearch(PROHIBITED_PATTERNS[p], cmd)

\* re.search(r"flag(?:\.|_|-)?txt", command, re.IGNORECASE)
FlagFileSearch(cmd) ==
    LET c == LowerStr(cmd)
    IN  \E i \in 1..Len(c) :
          /\ OccursAt(<<"f","l","a","g">>, c, i)
          /\ \/ OccursAt(<<"t","x","t">>, c, i + 4)
             \/ /\ i + 4 <= Len(c)
                /\ c[i + 4] \in {".", "_", "-"}
                /\ OccursAt(<<"t","x","t">>, c, i + 5)

\* The protected-resource test of agent_loop.
MatchesProtected(cmd) ==
    FlagFileSearch(cmd) \/ Contains(<<"c","a","t","_","f","l","a","g">>, cmd)

----------------------------------------------------------------------------
(* Python values produced by json.loads.  k is the Python type; v is the   *)
(* text of a str or number, the items of a list, or the (key, value) pairs *)
(* of a dict in insertion order.                                           *)

None == [k |-> "none", v |-> <<>>]
PyStr(s) == [k |-> "str", v |-> s]
PyNum(s) == [k |-> "num", v |-> s]
PyBool(b) == [k |-> "bool", v |-> <<b>>]
PyList(items) == [k |-> "list", v |-> items]
PyDict(pairs) == [k |-> "dict", v |-> pairs]

\* d[key] = val for a dict: an existing key keeps its place, a new one is
\* appended.
DictPut(pairs, key, val) ==
    IF \E i \in DOMAIN pairs : pairs[i][1] = key
    THEN [i \in DOMAIN pairs |->
             IF pairs[i][1] = key THEN <<key, val>> ELSE pairs[i]]
    ELSE Append(pairs, <<key, val>>)

\* dict.get(key, default)
DictGet(d, key, default) ==
    IF \E i \in DOMAIN d.v : d.v[i][1] = key
    THEN d.v[CHOOSE i \in DOMAIN d.v : d.v[i][1] = key][2]
    ELSE default

\* value == "text" for a Python value and a string literal
EqStr(val, s) == val.k = "str" /\ val.v = s

----------------------------------------------------------------------------
(* json.loads, for texts without backslash escapes, fractions or exponents.*)

\* Character at index i, "" past the end of the text.
At(t, i) == IF i \in DOMAIN t THEN t[i] ELSE ""

\* Index of the first non-whitespace character at or after i
\* (Len(t) + 1 if there is none).
SkipWs(t, i) ==
    LET stop == {j \in i..(Len(t) + 1) : At(t, j) \notin Whitespace}
    IN  CHOOSE j \in stop : \A m \in stop : j <= m

Fail == [ok |-> FALSE, val |-> None, pos |-> 0]
Ok(val, pos) == [ok |-> TRUE, val |-> val, pos |-> pos]

\* A string literal opening at t[i] = DQ.  Control characters inside a
\* string are rejected (strict mode).
ParseString(t, i) ==
    LET closes == {j \in (i + 1)..Len(t) : t[j] = DQ}
    IN  IF closes = {} THEN Fail
        ELSE LET j == CHOOSE c \in closes : \A m \in closes : c <= m
                 body == SubSeq(t, i + 1, j - 1)
             IN  IF \E m \in DOMAIN body : body[m] \in {"\t", "\n", "\r", "\\"}
                 THEN Fail
                 ELSE Ok(PyStr(body), j + 1)

\* An integer literal starting at t[i]: -? (0 | [1-9][0-9]*)
ParseNumber(t, i) ==
    LET s == IF At(t, i) = "-" THEN i + 1 ELSE i
    IN  IF At(t, s) \notin Digits THEN Fail
        ELSE LET nondig == {j \in s..(Len(t) + 1) : At(t, j) \notin Digits}
                 e == IF t[s] = "0" THEN s + 1
                      ELSE CHOOSE j \in nondig : \A m \in nondig : j <= m
             IN  Ok(PyNum(SubSeq(t, i, e - 1)), e)

RECURSIVE ParseValue(_, _)
RECURSIVE ParseMembers(_, _, _)
RECURSIVE ParseElements(_, _, _)

\* After a member: "}" closes the object, "," announces the next member.
MemberEnd(t, n, acc) ==
    IF At(t, n) = "}" THEN Ok(PyDict(acc), n + 1)
    ELSE IF At(t, n) = "," THEN ParseMembers(t, SkipWs(t, n + 1), acc)
    ELSE Fail

\* The value of a member has been read.
MemberValue(t, key, val, acc) ==
    IF ~val.ok THEN Fail
    ELSE MemberEnd(t, SkipWs(t, val.pos), DictPut(acc, key.val.v, val.val))

\* The key of a member has been read; c is where its ":" must be.
MemberColon(t, key, c, acc) ==
    IF At(t, c) # ":" THEN Fail
    ELSE MemberValue(t, key, ParseValue(t, SkipWs(t, c + 1)), acc)

MemberKey(t, key, acc) ==
    IF ~key.ok THEN Fail
    ELSE MemberColon(t, key, SkipWs(t, key.pos), acc)

\* The members of an object, t[i] being the opening quote of the next key.
ParseMembers(t, i, acc) ==
    IF At(t, i) # DQ THEN Fail
    ELSE MemberKey(t, ParseString(t, i), acc)

\* After an element: "]" closes the array, "," announces the next element.
ElementEnd(t, n, acc) ==
    IF At(t, n) = "]" THEN Ok(PyList(acc), n + 1)
    ELSE IF At(t, n) = "," THEN ParseElements(t, SkipWs(t, n + 1), acc)
    ELSE Fail

\* An element has been read.
ElementValue(t, val, acc) ==
    IF ~val.ok THEN Fail
    ELSE ElementEnd(t, SkipWs(t, val.pos), Append(acc, val.val))

\* The elements of an array, t[i] being the start of the next element.
ParseElements(t, i, acc) == ElementValue(t, ParseValue(t, i), acc)

\* One JSON value starting at t[i] (whitespace already skipped).
ParseValue(t, i) ==
    LET c == At(t, i)
    IN  IF c = DQ THEN ParseString(t, i)
        ELSE IF c = "{"
        THEN LET j == SkipWs(t, i + 1)
             IN  IF At(t, j) = "}" THEN Ok(PyDict(<<>>), j + 1)
                 ELSE ParseMembers(t, j, <<>>)
        ELSE IF c = "["
        THEN LET j == SkipWs(t, i + 1)
             IN  IF At(t, j) = "]" THEN Ok(PyList(<<>>), j + 1)
                 ELSE ParseElements(t, j, <<>>)
        ELSE IF OccursAt(<<"n","u","l","l">>, t, i) THEN Ok(None, i + 4)
        ELSE IF OccursAt(<<"t","r","u","e">>, t, i) THEN Ok(PyBool(TRUE), i + 4)
        ELSE IF OccursAt(<<"f","a","l","s","e">>, t, i) THEN Ok(PyBool(FALSE), i + 5)
        ELSE ParseNumber(t, i)

\* The decoded value r is the result if nothing but whitespace follows it.
WholeText(t, r) ==
    IF r.ok /\ SkipWs(t, r.pos) > Len(t)
    THEN [ok |-> TRUE, val |-> r.val]
    ELSE [ok |-> FALSE, val |-> None]

\* json.loads(t): ok = FALSE stands for the JSONDecodeError.
JsonLoads(t) == WholeText(t, ParseValue(t, SkipWs(t, 1)))

----------------------------------------------------------------------------
(* try_extract_json.                                                       *)

RECURSIVE RemoveTrailingCommas(_, _)
\* re.sub(r",\s*([\]}])", r"\1", t), scanning from index i.
RemoveTrailingCommas(t, i) ==
    IF i > Len(t) THEN <<>>
    ELSE LET j == SkipWs(t, i + 1)
         IN  IF t[i] = "," /\ At(t, j) \in {"]", "}"}
             THEN <<t[j]>> \o RemoveTrailingCommas(t, j + 1)
             ELSE <<t[i]>> \o RemoveTrailingCommas(t, i + 1)

\* candidate.replace("'", '"') when the candidate has a single quote and
\* no double quote.
NormalizeQuotes(t) ==
    IF SQ \in Range(t) /\ DQ \notin Range(t)
    THEN [i \in DOMAIN t |-> IF t[i] = SQ THEN DQ ELSE t[i]]
    ELSE t

\* The two textual repairs applied to the candidate block.
Repair(t) == NormalizeQuotes(RemoveTrailingCommas(t, 1))

\* The result of a decoding attempt: its value, or None when it failed.
ValueOrNone(decoded) == IF decoded.ok THEN decoded.val ELSE None

\* The second attempt, on the repaired block between the first "{" and the
\* last "}" of the text.
SecondAttempt(text, start, end) ==
    IF start # 0 /\ end # 0 /\ end > start
    THEN ValueOrNone(JsonLoads(Repair(SubSeq(text, start, end))))
    ELSE None

\* The first attempt (direct) succeeded, or the second one decides.
FirstAttempt(text, direct) ==
    IF direct.ok THEN direct.val
    ELSE SecondAttempt(text, Find(text, "{"), RFind(text, "}"))

\* json.loads of the stripped text, then the repair.
ExtractFromText(text) == FirstAttempt(text, JsonLoads(text))

\* try_extract_json(raw): the decoded value, or None.
try_extract_json(raw) == ExtractFromText(Strip(raw))

----------------------------------------------------------------------------
(* String literals of agent_loop.                                          *)

k_action == <<"a","c","t","i","o","n">>
k_command == <<"c","o","m","m","a","n","d">>
k_message == <<"m","e","s","s","a","g","e">>
s_run_command == <<"r","u","n","_","c","o","m","m","a","n","d">>
s_report_flag == <<"r","e","p","o","r","t","_","f","l","a","g">>
s_finish == <<"f","i","n","i","s","h">>
s_ls == <<"l","s"," ","-","1">>
s_flag_txt == <<"f","l","a","g",".","t","x","t">>
s_challenge_json == <<"c","h","a","l","l","e","n","g","e",".","j","s","o","n">>

----------------------------------------------------------------------------
(* The environment: oracle replies, shell outcomes and the filesystem.     *)

\* Text of a JSON string, of a "key": value member and of objects with
\* one and two members, as the system prompt's schema writes them.
JStr(s) == <<DQ>> \o s \o <<DQ>>
JMember(key, text) == JStr(key) \o <<":">> \o text
JObj1(m) == <<"{">> \o m \o <<"}">>
JObj2(m, n) == <<"{">> \o m \o <<",">> \o n \o <<"}">>

RunCommandReply(text) ==
    JObj2(JMember(k_action, JStr(s_run_command)), JMember(k_command, text))
ReportFlagReply(text) ==
    JObj2(JMember(k_action, JStr(s_report_flag)), JMember(k_message, text))
FinishReply(text) ==
    JObj2(JMember(k_action, JStr(s_finish)), JMember(k_message, text))

\* Texts used as inputs.
CMD_LS_PADDED == <<" ","l","s"," ","-","1"," ">>
CMD_ECHO == <<"e","c","h","o"," ","h","i">>
CMD_RM == <<"r","m"," ","a">>
CMD_FARM == <<"f","a","r","m">>
CMD_CAT_FLAG == <<"c","a","t"," ","a","/","f","l","a","g",".","t","x","t">>
CMD_CAT_FLAG_UPPER == <<"c","a","t"," ","A","/","F","L","A","G","-","T","X","T">>
CMD_CAT_FLAG_BIN == <<".","/","c","a","t","_","f","l","a","g">>
TXT_NULL == <<"n","u","l","l">>
RAW_PROSE == <<"I"," ","w","i","l","l"," ","l","i","s","t"," ","f","i","l","e","s">>
RAW_TRAILING_COMMA == <<"S","u","r","e",":"," ","{","\"","a","c","t","i","o","n","\"",":","\"","f","i","n","i","s","h","\"",",","\"","m","e","s","s","a","g","e","\"",":","\"","o","k","\"",",","}">>
RAW_SINGLE_QUOTES == <<"{","'","a","c","t","i","o","n","'",":","'","r","u","n","_","c","o","m","m","a","n","d","'",",","'","c","o","m","m","a","n","d","'",":","'","l","s"," ","-","1","'","}">>
RAW_UNBALANCED == <<"{","\"","a","c","t","i","o","n","\"",":","\"","f","i","n","i","s","h","\"">>

\* Command texts the oracle may send.
Commands ==
    { s_ls,
      CMD_LS_PADDED,
      CMD_ECHO,
      CMD_RM,
      CMD_FARM,
      CMD_CAT_FLAG,
      CMD_CAT_FLAG_UPPER,
      CMD_CAT_FLAG_BIN,
      <<>>,
      <<" ">> }

\* Raw replies of the oracle (return values of call_gpt).
RawReplies ==
    {RunCommandReply(JStr(c)) : c \in Commands}
    \cup {ReportFlagReply(JStr(m)) : m \in {<<"x">>, <<" ">>, <<>>}}
    \cup {FinishReply(JStr(m)) : m \in {<<"o","k">>, <<>>}}
    \cup { RunCommandReply(TXT_NULL),
           RunCommandReply(<<"7">>),
           JObj1(JMember(k_action, JStr(s_run_command))),
           ReportFlagReply(TXT_NULL),
           JObj1(JMember(k_action, JStr(s_report_flag))),
           FinishReply(TXT_NULL),
           FinishReply(<<"7">>),
           JObj1(JMember(k_action, JStr(s_finish))),
           JObj1(JMember(k_action, JStr(<<"d","a","n","c","e">>))),
           JObj1(JMember(k_message, JStr(<<"x">>))),
           TXT_NULL,
           <<"7">>,
           <<"[","1","]">>,
           JStr(s_finish),
           RAW_PROSE,
           RAW_TRAILING_COMMA,
           RAW_SINGLE_QUOTES,
           RAW_UNBALANCED }

\* Directory names that may be listed, and the marker files that may exist.
DirNames == {<<"a">>, <<"b">>}

\* os.path.join(a, b) for a relative b.
PathJoin(a, b) ==
    IF a = <<>> THEN b
    ELSE IF a[Len(a)] = "/" THEN a \o b
    ELSE a \o <<"/">> \o b

MarkerPaths ==
    {PathJoin(d, s_flag_txt) : d \in DirNames}
    \cup {PathJoin(d, s_challenge_json) : d \in DirNames}

\* Raw standard output a shell command may produce.
Stdouts ==
    { <<>>,
      <<"a","\n">>,
      <<"a","\n","b","\n">>,
      <<" ","b"," ","\n","\n","a","\n">> }

\* What subprocess.run does with a command: it returns with an exit code
\* and captured output, raises TimeoutExpired, or raises another exception.
ShellOutcomes ==
    [kind : {"exit"}, stdout : Stdouts, returncode : {0, 1}]
    \cup [kind : {"timeout", "error"}, stdout : {<<>>}, returncode : {0}]

----------------------------------------------------------------------------
(* run_shell_command.                                                      *)

\* run_shell_command without the loop over PROHIBITED_PATTERNS.
run_shell_command_Unchecked(cmd, o) ==
    IF o.kind = "exit"
    THEN [stdout |-> Strip(o.stdout), stderr |-> "captured",
          returncode |-> o.returncode, ran |-> TRUE]
    ELSE IF o.kind = "timeout"
    THEN [stdout |-> <<>>, stderr |-> "timed out", returncode |-> -1, ran |-> TRUE]
    ELSE [stdout |-> <<>>, stderr |-> "error", returncode |-> -1, ran |-> TRUE]

\* run_shell_command whose TimeoutExpired handler reports an ordinary
\* failure: exit code 1 and no error text.
run_shell_command_TimeoutAsFailure(cmd, o) ==
    IF MatchesProhibited(cmd)
    THEN [stdout |-> <<>>, stderr |-> "refused", returncode |-> 2, ran |-> FALSE]
    ELSE IF o.kind = "exit"
    THEN [stdout |-> Strip(o.stdout), stderr |-> "captured",
          returncode |-> o.returncode, ran |-> TRUE]
    ELSE IF o.kind = "timeout"
    THEN [stdout |-> <<>>, stderr |-> "captured", returncode |-> 1, ran |-> TRUE]
    ELSE [stdout |-> <<>>, stderr |-> "error", returncode |-> -1, ran |-> TRUE]

\* run_shell_command(cmd) when subprocess.run, if reached, behaves as o.
\* ran tells whether subprocess.run was called (an execution spy); the
\* other fields are the returned dict, stderr reduced to its kind.
run_shell_command(cmd, o) ==
    IF MatchesProhibited(cmd)
    THEN [stdout |-> <<>>, stderr |-> "refused", returncode |-> 2, ran |-> FALSE]
    ELSE IF o.kind = "exit"
    THEN [stdout |-> Strip(o.stdout), stderr |-> "captured",
          returncode |-> o.returncode, ran |-> TRUE]
    ELSE IF o.kind = "timeout"
    THEN [stdout |-> <<>>, stderr |-> "timed out", returncode |-> -1, ran |-> TRUE]
    ELSE [stdout |-> <<>>, stderr |-> "error", returncode |-> -1, ran |-> TRUE]

----------------------------------------------------------------------------
(* Project discovery from the output of "ls -1".                           *)

RECURSIVE SplitLines(_)
\* str.splitlines() for texts whose only line breaks are "\n" and "\r".
SplitLines(t) ==
    LET breaks == {i \in DOMAIN t : t[i] \in {"\n", "\r"}}
    IN  IF t = <<>> THEN <<>>
        ELSE IF breaks = {} THEN <<t>>
        ELSE LET b == CHOOSE i \in breaks : \A j \in breaks : i <= j
                 n == IF t[b] = "\r" /\ At(t, b + 1) = "\n" THEN b + 2 ELSE b + 1
             IN  <<SubSeq(t, 1, b - 1)>> \o SplitLines(SubSeq(t, n, Len(t)))

\* [line.strip() for line in files_text.splitlines() if line.strip()]
ListedEntries(files_text) ==
    LET lines == SplitLines(files_text)
        stripped == [i \in DOMAIN lines |-> Strip(lines[i])]
        NonBlank(line) == line # <<>>
    IN  SelectSeq(stripped, NonBlank)

\* Discovery with "or" in place of "and" between the two marker tests.
DiscoverProjects_EitherMarker(files_text, fs) ==
    LET IsProject(entry) ==
            \/ PathJoin(entry, s_flag_txt) \in fs
            \/ PathJoin(entry, s_challenge_json) \in fs
    IN  SelectSeq(ListedEntries(files_text), IsProject)

\* The entries that hold both flag.txt and challenge.json, fs being the set
\* of paths for which os.path.isfile is true.
DiscoverProjects(files_text, fs) ==
    LET IsProject(entry) ==
            /\ PathJoin(entry, s_flag_txt) \in fs
            /\ PathJoin(entry, s_challenge_json) \in fs
    IN  SelectSeq(ListedEntries(files_text), IsProject)

----------------------------------------------------------------------------
(* agent_loop.                                                             *)

VARIABLES
    messages,             \* roles of the conversation history, in order
    flags_found,          \* dict: key number n of "flag_n" -> flag body
    discovered_projects,  \* None, or the list of discovered directories
    must_run_initial_ls,  \* the discovery gate
    step,                 \* iterations of the for loop completed
    pc,                   \* "loop", "returned" (finish), "exhausted", "raised"
    retval,               \* value returned by agent_loop, NoReturn before
    outcome,              \* statement that ended the last iteration
    executed,             \* commands handed to subprocess.run, in order
    calls,                \* number of call_gpt calls made
    files,                \* marker files that exist in the working directory
    input,                \* argument of a function called on its own
    output                \* its result, NoOutput before the call

\* The variables of agent_loop.
loop_vars == <<messages, flags_found, discovered_projects, must_run_initial_ls,
               step, pc, retval, outcome, executed, calls, files>>

vars == <<loop_vars, input, output>>

\* No function is called on its own.
NoInput == [k |-> "none", v |-> <<>>]
NoOutput == [k |-> "pending", v |-> <<>>]

\* The loop has not returned a value yet.
NoReturn == [k |-> "pending", v |-> <<>>]

\* len(flags_found), len(discovered_projects)
DictLen(d) == Cardinality(DOMAIN d)

\* flags_found["flag_1"] = message: every report stored under one key.
DictStore_OneKey(d, n, message) ==
    [key \in DOMAIN d \cup {1} |-> IF key = 1 THEN message ELSE d[key]]

\* flags_found[f"flag_{n}"] = message
DictStore(d, n, message) ==
    [key \in DOMAIN d \cup {n} |-> IF key = n THEN message ELSE d[key]]

\* action = try_extract_json(raw_reply), for every reply of the oracle.
ParsedReply == [r \in RawReplies |-> try_extract_json(r)] @@ <<>>

\* act_type = action.get("action")
ActType(action) == DictGet(action, k_action, None)

Init ==
    /\ messages = <<"system", "user">>
    /\ flags_found = <<>>
    /\ discovered_projects = None
    /\ must_run_initial_ls = TRUE
    /\ step = 0
    /\ pc = "loop"
    /\ retval = NoReturn
    /\ outcome = "start"
    /\ executed = <<>>
    /\ calls = 0
    /\ files \in SUBSET MarkerPaths
    /\ input = NoInput
    /\ output = NoOutput

\* One iteration starts: the loop is running, the budget is not used up,
\* and call_gpt returns.
Consult ==
    /\ pc = "loop"
    /\ step < MaxSteps
    /\ calls' = calls + 1
    /\ UNCHANGED <<input, output>>

\* An iteration ends with "continue" after appending msgs to the history.
Continue(label, msgs) ==
    /\ messages' = messages \o msgs
    /\ step' = step + 1
    /\ outcome' = label
    /\ UNCHANGED <<pc, retval>>

\* An exception leaves agent_loop: nothing is appended or returned.
Raise(label) ==
    /\ pc' = "raised"
    /\ outcome' = label
    /\ UNCHANGED <<messages, flags_found, discovered_projects,
                   must_run_initial_ls, step, retval, executed, files>>

\* The fields of a decoded reply, with the defaults of action.get.
CommandValue(r) == DictGet(ParsedReply[r], k_command, PyStr(<<>>))
MessageValue(r) == DictGet(ParsedReply[r], k_message, PyStr(<<>>))

IsDict(r) == ParsedReply[r].k = "dict"
IsRunCommand(r) == IsDict(r) /\ EqStr(ActType(ParsedReply[r]), s_run_command)
IsReportFlag(r) == IsDict(r) /\ EqStr(ActType(ParsedReply[r]), s_report_flag)
IsFinish(r) == IsDict(r) /\ EqStr(ActType(ParsedReply[r]), s_finish)

\* The stripped command texts of the run_command replies.
CommandTexts ==
    {Strip(CommandValue(r).v) :
        r \in {q \in RawReplies : IsRunCommand(q) /\ CommandValue(q).k = "str"}}

\* The commands refused by the flag-file test of agent_loop.
ProtectedCommands == {c \in CommandTexts : MatchesProtected(c)}

\* result = run_shell_command(command), for every command text and every
\* behaviour of subprocess.run (f @@ <<>> is f, held as a table).
ShellResult ==
    [c \in CommandTexts, o \in ShellOutcomes |-> run_shell_command(c, o)] @@ <<>>

\* What an executed command other than the listing may do to the marker
\* files: nothing, create one, or delete one.
SideEffects(fs) ==
    {fs} \cup {fs \cup {p} : p \in MarkerPaths} \cup {fs \ {p} : p \in fs}

\* The gate without its test of the command.
GateBlocks_Open(command) == FALSE

\* The discovery gate: a command other than "ls -1" while the initial
\* listing has not run.
GateBlocks(command) == must_run_initial_ls /\ command # s_ls

\* "not discovered_projects" in place of "discovered_projects is None".
NotDiscovered_OrEmpty ==
    discovered_projects.k = "none" \/ Len(discovered_projects.v) = 0

\* discovered_projects is None
NotDiscovered == discovered_projects.k = "none"

\* The count test off by one.
TooFewFlags_OffByOne == DictLen(flags_found) + 1 < Len(discovered_projects.v)

\* The count test with <= in place of <.
TooFewFlags_Inclusive == DictLen(flags_found) <= Len(discovered_projects.v)

\* len(flags_found) < len(discovered_projects)
TooFewFlags == DictLen(flags_found) < Len(discovered_projects.v)

\* The parse-failure branch without the assistant message.
ParseFailure_ReplyDropped(r) ==
    /\ Consult
    /\ ParsedReply[r].k = "none"
    /\ Continue("not_json", <<"user">>)
    /\ UNCHANGED <<flags_found, discovered_projects, must_run_initial_ls,
                   executed, files>>

\* try_extract_json returned None.
ParseFailure(r) ==
    /\ Consult
    /\ ParsedReply[r].k = "none"
    /\ Continue("not_json", <<"assistant", "user">>)
    /\ UNCHANGED <<flags_found, discovered_projects, must_run_initial_ls,
                   executed, files>>

\* try_extract_json returned a value that is not a dict: action.get raises
\* AttributeError.
NotADict(r) ==
    /\ Consult
    /\ ParsedReply[r].k \notin {"none", "dict"}
    /\ Raise("action_get_raised")

\* run_command whose "command" is not a string: .strip() raises.
CommandNotString(r) ==
    /\ Consult
    /\ IsRunCommand(r)
    /\ CommandValue(r).k # "str"
    /\ Raise("command_strip_raised")

\* run_command with an empty command.
EmptyCommand(r) ==
    /\ Consult
    /\ IsRunCommand(r)
    /\ CommandValue(r).k = "str"
    /\ Strip(CommandValue(r).v) = <<>>
    /\ Continue("command_empty", <<"user">>)
    /\ UNCHANGED <<flags_found, discovered_projects, must_run_initial_ls,
                   executed, files>>

\* The gate opened by the first run_command, whatever its command.
LsRequired_OpensGate(r) ==
    /\ Consult
    /\ IsRunCommand(r)
    /\ CommandValue(r).k = "str"
    /\ Strip(CommandValue(r).v) # <<>>
    /\ GateBlocks(Strip(CommandValue(r).v))
    /\ must_run_initial_ls' = FALSE
    /\ Continue("ls_required", <<"user">>)
    /\ UNCHANGED <<flags_found, discovered_projects, executed, files>>

\* run_command other than "ls -1" while the initial listing is required.
LsRequired(r) ==
    /\ Consult
    /\ IsRunCommand(r)
    /\ CommandValue(r).k = "str"
    /\ Strip(CommandValue(r).v) # <<>>
    /\ GateBlocks(Strip(CommandValue(r).v))
    /\ Continue("ls_required", <<"user">>)
    /\ UNCHANGED <<flags_found, discovered_projects, must_run_initial_ls,
                   executed, files>>

\* run_command that names a flag file.  The gate test comes first, so the
\* gate is already open when this refusal is reached.
FlagFileRefused(r) ==
    LET command == Strip(CommandValue(r).v)
    IN  /\ Consult
        /\ IsRunCommand(r)
        /\ CommandValue(r).k = "str"
        /\ command # <<>>
        /\ ~GateBlocks(command)
        /\ command \in ProtectedCommands
        /\ must_run_initial_ls' = FALSE
        /\ Continue("flag_file_refused", <<"user">>)
        /\ UNCHANGED <<flags_found, discovered_projects, executed, files>>

\* Execute with the discovery run only when "ls -1" exits with code 0.
Execute_DiscoverOnSuccess(r) ==
    LET command == Strip(CommandValue(r).v)
    IN  /\ Consult
        /\ IsRunCommand(r)
        /\ CommandValue(r).k = "str"
        /\ command # <<>>
        /\ ~GateBlocks(command)
        /\ command \notin ProtectedCommands
        /\ must_run_initial_ls' = FALSE
        /\ \E o \in ShellOutcomes :
             LET result == ShellResult[command, o]
             IN  /\ executed' = IF result.ran THEN Append(executed, command)
                                ELSE executed
                 /\ files' \in IF result.ran /\ command # s_ls
                               THEN SideEffects(files) ELSE {files}
                 /\ IF command = s_ls /\ result.returncode = 0
                    THEN /\ discovered_projects' =
                                PyList(DiscoverProjects(result.stdout, files'))
                         /\ Continue("discovered", <<"assistant", "user", "user">>)
                    ELSE /\ UNCHANGED discovered_projects
                         /\ Continue(IF result.ran THEN "executed" ELSE "refused",
                                     <<"assistant", "user">>)
        /\ UNCHANGED flags_found

\* run_command passed to run_shell_command.  o is what subprocess.run does
\* if it is reached, fs the marker files after the command has run.
Execute(r) ==
    LET command == Strip(CommandValue(r).v)
    IN  /\ Consult
        /\ IsRunCommand(r)
        /\ CommandValue(r).k = "str"
        /\ command # <<>>
        /\ ~GateBlocks(command)
        /\ command \notin ProtectedCommands
        /\ must_run_initial_ls' = FALSE
        /\ \E o \in ShellOutcomes :
             LET result == ShellResult[command, o]
             IN  /\ executed' = IF result.ran THEN Append(executed, command)
                                ELSE executed
                 /\ files' \in IF result.ran /\ command # s_ls
                               THEN SideEffects(files) ELSE {files}
                 /\ IF command = s_ls
                    THEN /\ discovered_projects' =
                                PyList(DiscoverProjects(result.stdout, files'))
                         /\ Continue("discovered", <<"assistant", "user", "user">>)
                    ELSE /\ UNCHANGED discovered_projects
                         /\ Continue(IF result.ran THEN "executed" ELSE "refused",
                                     <<"assistant", "user">>)
        /\ UNCHANGED flags_found

\* report_flag whose "message" is not a string: .strip() raises.
MessageNotString(r) ==
    /\ Consult
    /\ IsReportFlag(r)
    /\ MessageValue(r).k # "str"
    /\ Raise("message_strip_raised")

\* report_flag with an empty message.
EmptyReport(r) ==
    /\ Consult
    /\ IsReportFlag(r)
    /\ MessageValue(r).k = "str"
    /\ Strip(MessageValue(r).v) = <<>>
    /\ Continue("flag_empty", <<"user">>)
    /\ UNCHANGED <<flags_found, discovered_projects, must_run_initial_ls,
                   executed, files>>

\* report_flag with a flag body: stored under the key flag_{len + 1}.
RecordFlag(r) ==
    LET message == Strip(MessageValue(r).v)
    IN  /\ Consult
        /\ IsReportFlag(r)
        /\ MessageValue(r).k = "str"
        /\ message # <<>>
        /\ flags_found' = DictStore(flags_found, DictLen(flags_found) + 1, message)
        /\ Continue("flag_recorded", <<"assistant", "user">>)
        /\ UNCHANGED <<discovered_projects, must_run_initial_ls, executed, files>>

\* finish before any discovery.
FinishBeforeDiscovery(r) ==
    /\ Consult
    /\ IsFinish(r)
    /\ NotDiscovered
    /\ Continue("finish_needs_ls", <<"user">>)
    /\ UNCHANGED <<flags_found, discovered_projects, must_run_initial_ls,
                   executed, files>>

\* finish with fewer flags than discovered projects.
FinishRejected(r) ==
    /\ Consult
    /\ IsFinish(r)
    /\ ~NotDiscovered
    /\ TooFewFlags
    /\ Continue("finish_rejected", <<"user">>)
    /\ UNCHANGED <<flags_found, discovered_projects, must_run_initial_ls,
                   executed, files>>

\* finish accepted: agent_loop returns action.get("message", "").
FinishAccepted(r) ==
    /\ Consult
    /\ IsFinish(r)
    /\ ~NotDiscovered
    /\ ~TooFewFlags
    /\ retval' = MessageValue(r)
    /\ pc' = "returned"
    /\ outcome' = "finished"
    /\ UNCHANGED <<messages, flags_found, discovered_projects,
                   must_run_initial_ls, step, executed, files>>

\* A dict whose "action" is none of the three known types.
UnknownAction(r) ==
    /\ Consult
    /\ IsDict(r)
    /\ ~IsRunCommand(r) /\ ~IsReportFlag(r) /\ ~IsFinish(r)
    /\ Continue("unknown_action", <<"user">>)
    /\ UNCHANGED <<flags_found, discovered_projects, must_run_initial_ls,
                   executed, files>>

\* The for loop runs out of steps: agent_loop returns None.
MaxStepsReached ==
    /\ pc = "loop"
    /\ step = MaxSteps
    /\ pc' = "exhausted"
    /\ retval' = None
    /\ outcome' = "max_steps"
    /\ UNCHANGED <<messages, flags_found, discovered_projects,
                   must_run_initial_ls, step, executed, calls, files,
                   input, output>>

Next ==
    \/ \E r \in RawReplies :
          \/ ParseFailure(r)
          \/ NotADict(r)
          \/ CommandNotString(r)
          \/ EmptyCommand(r)
          \/ LsRequired(r)
          \/ FlagFileRefused(r)
          \/ Execute(r)
          \/ MessageNotString(r)
          \/ EmptyReport(r)
          \/ RecordFlag(r)
          \/ FinishBeforeDiscovery(r)
          \/ FinishRejected(r)
          \/ FinishAccepted(r)
          \/ UnknownAction(r)
    \/ MaxStepsReached

Spec == Init /\ [][Next]_vars

----------------------------------------------------------------------------
(* Properties.                                                             *)

\* C1: a finish is accepted only after an executed "ls -1" has set
\* discovered_projects and with at least as many recorded flags as
\* discovered projects; a finish in any other state is rejected (before
\* discovery, or with too few flags) and the loop goes on.
C1_FinishOnlyWhenComplete ==
    /\ outcome = "finished" =>
          /\ pc = "returned"
          /\ discovered_projects.k = "list"
          /\ \E i \in DOMAIN executed : executed[i] = s_ls
          /\ DictLen(flags_found) >= Len(discovered_projects.v)
    /\ outcome = "finish_needs_ls" =>
          pc = "loop" /\ discovered_projects.k = "none"
    /\ outcome = "finish_rejected" =>
          /\ pc = "loop"
          /\ discovered_projects.k = "list"
          /\ DictLen(flags_found) < Len(discovered_projects.v)
    /\ pc = "returned" => outcome = "finished"

\* A finish accepted with one flag for one project, after a discovery.
C1_Witness ==
    /\ outcome = "finished"
    /\ Len(discovered_projects.v) = 1
    /\ DictLen(flags_found) = 1

\* C2 as stated: no finish is accepted while the set of discovered
\* projects is empty, before or after a discovery.
C2_NoFinishWithEmptySet ==
    outcome = "finished" =>
        discovered_projects.k = "list" /\ Len(discovered_projects.v) > 0

\* C2 amended: no finish is accepted while discovered_projects is None; once
\* a listing has run and found no project, a finish is never rejected.
C2_NoFinishBeforeDiscovery ==
    /\ outcome = "finished" => discovered_projects.k = "list"
    /\ outcome = "finish_needs_ls" => discovered_projects.k = "none"
    /\ (discovered_projects.k = "list" /\ Len(discovered_projects.v) = 0) =>
          outcome \notin {"finish_needs_ls", "finish_rejected"}

\* A finish accepted after a listing that found no project, with no flag.
C2_Witness ==
    /\ outcome = "finished"
    /\ discovered_projects.k = "list"
    /\ Len(discovered_projects.v) = 0
    /\ DictLen(flags_found) = 0

\* C3: no command reaches the shell while the discovery gate is closed, the
\* first command that reaches it is "ls -1", and a command turned away by
\* the gate leaves the gate closed.
C3_FirstCommandIsLs ==
    /\ must_run_initial_ls => executed = <<>>
    /\ executed # <<>> => executed[1] = s_ls
    /\ outcome = "ls_required" => must_run_initial_ls

\* Another command has run after the initial listing.
C3_Witness ==
    /\ Len(executed) >= 2
    /\ executed[2] # s_ls

\* C4: every command handed to subprocess.run matches no prohibited
\* pattern and does not match the flag-file pattern.
C4_ExecutedPassedGuardrails ==
    \A i \in DOMAIN executed :
        ~MatchesProhibited(executed[i]) /\ ~MatchesProtected(executed[i])

\* A prohibited command was refused after a command had been run.
C4_Witness ==
    /\ outcome = "refused"
    /\ Len(executed) >= 1

\* C5 as stated: once set, discovered_projects never changes.
C5_DiscoveryImmutable ==
    [][discovered_projects.k = "list" =>
          discovered_projects' = discovered_projects]_vars

\* C6 as stated: while the gate is closed nothing is discovered and no flag
\* is recorded.
C6_NoEffectBeforeDiscovery ==
    must_run_initial_ls =>
        discovered_projects.k = "none" /\ DictLen(flags_found) = 0

\* C7 as stated: among the messages the loop appends (index 3 onwards) no
\* two neighbours have the same role.
C7_StrictAlternation ==
    \A i \in 3..(Len(messages) - 1) : messages[i] # messages[i + 1]

\* C8 as stated: no reply makes an exception leave agent_loop.
C8_NoUnhandledFault == pc # "raised"

\* C9 as stated: agent_loop returns None exactly when the step budget ran
\* out, and the finish message text when a finish was accepted.
C9_ReturnTellsOutcome ==
    /\ retval.k = "none" <=> pc = "exhausted"
    /\ pc = "returned" => retval.k # "pending"

\* C10 as stated: at most max_steps oracle calls, one per turn, and the
\* loop ends either by an accepted finish or, after max_steps turns
\* without one, by exhaustion.
C10_EndsByFinishOrExhaustion ==
    /\ calls <= MaxSteps
    /\ pc = "loop" => calls = step
    /\ pc # "loop" =>
          \/ pc = "returned" /\ outcome = "finished"
          \/ pc = "exhausted" /\ step = MaxSteps /\ calls = MaxSteps

\* C11: a turn whose reply does not parse hands nothing to the shell, leaves
\* the gate, discovered_projects and flags_found as they were, appends
\* exactly the assistant message and one user message, and uses one step.
C11_ParseFailureFrame ==
    [][(calls' = calls + 1 /\ outcome' = "not_json") =>
          /\ executed' = executed
          /\ must_run_initial_ls' = must_run_initial_ls
          /\ discovered_projects' = discovered_projects
          /\ flags_found' = flags_found
          /\ messages' = messages \o <<"assistant", "user">>
          /\ step' = step + 1
          /\ pc' = "loop"]_vars

\* A reply that did not parse, after a discovery and a recorded flag.
C11_Witness ==
    /\ outcome = "not_json"
    /\ discovered_projects.k = "list"
    /\ DictLen(flags_found) = 1
    /\ executed # <<>>

----------------------------------------------------------------------------
(* Functions called on their own, outside agent_loop.                      *)

\* agent_loop is not running.
LoopIdle ==
    /\ messages = <<>>
    /\ flags_found = <<>>
    /\ discovered_projects = None
    /\ must_run_initial_ls = TRUE
    /\ step = 0
    /\ pc = "idle"
    /\ retval = NoReturn
    /\ outcome = "start"
    /\ executed = <<>>
    /\ calls = 0
    /\ files = {}

\* run_shell_command(cmd) is about to be called; o is what subprocess.run
\* will do if it is reached.
ShellInit ==
    /\ LoopIdle
    /\ input \in [cmd : CommandTexts, o : ShellOutcomes]
    /\ output = NoOutput

\* The call returns.
ShellCall ==
    /\ output = NoOutput
    /\ output' = run_shell_command(input.cmd, input.o)
    /\ UNCHANGED <<loop_vars, input>>

SpecShell == ShellInit /\ [][ShellCall]_vars

\* C12: run_shell_command returns one of its four result dicts for every
\* command text and every behaviour of subprocess.run: a refusal (exit code
\* 2, subprocess.run not reached) exactly for the prohibited commands, the
\* captured output and exit code of a command that ended, and for a timeout
\* empty stdout, the timeout text in stderr and exit code -1.
C12_ShellTotal ==
    output # NoOutput =>
        /\ DOMAIN output = {"stdout", "stderr", "returncode", "ran"}
        /\ output.stderr \in {"refused", "captured", "timed out", "error"}
        /\ output.ran <=> ~MatchesProhibited(input.cmd)
        /\ ~output.ran =>
              /\ output.stderr = "refused"
              /\ output.returncode = 2
              /\ output.stdout = <<>>
        /\ (output.ran /\ input.o.kind = "exit") =>
              /\ output.stderr = "captured"
              /\ output.returncode = input.o.returncode
        /\ (output.ran /\ input.o.kind = "timeout") =>
              /\ output.stdout = <<>>
              /\ output.stderr = "timed out"
              /\ output.returncode = -1
        /\ (output.ran /\ input.o.kind = "error") =>
              /\ output.stdout = <<>>
              /\ output.stderr = "error"
              /\ output.returncode = -1

\* A permitted command ran into the timeout and the call returned.
C12_Witness ==
    /\ output # NoOutput
    /\ input.o.kind = "timeout"
    /\ output.ran
    /\ output.returncode = -1

\* C13: with one or two discovered projects, a finish with fewer recorded
\* flags than projects is rejected (one user message, the loop goes on,
\* nothing else changes), and a finish with at least as many is accepted:
\* agent_loop returns and flags_found keeps its size.
C13_FinishByCount ==
    [][(/\ calls' = calls + 1
        /\ outcome' \in {"finish_needs_ls", "finish_rejected", "finished"}
        /\ discovered_projects.k = "list"
        /\ Len(discovered_projects.v) \in {1, 2}) =>
          IF DictLen(flags_found) < Len(discovered_projects.v)
          THEN /\ outcome' = "finish_rejected"
               /\ pc' = "loop"
               /\ messages' = Append(messages, "user")
               /\ flags_found' = flags_found
               /\ discovered_projects' = discovered_projects
          ELSE /\ outcome' = "finished"
               /\ pc' = "returned"
               /\ flags_found' = flags_found
               /\ DictLen(flags_found') >= Len(discovered_projects'.v)]_vars

\* The fourth reply is an accepted finish, with one project and one flag,
\* after "ls -1" (three messages), a turn that appended one user message (the
\* rejected finish) and a recorded flag (two messages).
C13_Witness ==
    /\ outcome = "finished"
    /\ calls = 4
    /\ executed = <<s_ls>>
    /\ Len(discovered_projects.v) = 1
    /\ DictLen(flags_found) = 1
    /\ messages = <<"system", "user", "assistant", "user", "user",
                    "user", "assistant", "user">>

----------------------------------------------------------------------------
(* try_extract_json on repairable texts.                                   *)

\* Longest command or message value of a repairable text.
MaxValueLen == 2

\* Characters of those values.
ValueAlphabet == {"a", " ", ",", "}"}

\* The texts over alphabet A of length at most n.
Texts(A, n) == UNION {[1..k -> A] : k \in 0..n}

\* The member that carries the payload of an action of type act.
PayloadKey(act) == IF act = s_run_command THEN k_command ELSE k_message

\* {"action":"<act>","<key>":"<value>"}, as the system prompt asks for it.
WellFormed(act, value) ==
    JObj2(JMember(k_action, JStr(act)), JMember(PayloadKey(act), JStr(value)))

\* The same object with a comma before its closing brace.
TrailingComma(act, value) ==
    SubSeq(WellFormed(act, value), 1, Len(WellFormed(act, value)) - 1)
        \o <<",", "}">>

\* The same object written with single quotes only.
SingleQuoted(act, value) ==
    [i \in DOMAIN WellFormed(act, value) |->
        IF WellFormed(act, value)[i] = DQ THEN SQ ELSE WellFormed(act, value)[i]]

\* A reply in one of the malformed forms, bare or inside prose.
Malformed(form, act, value, prose) ==
    (IF prose THEN <<"o","k",":"," ">> ELSE <<>>)
    \o (IF form = "trailing_comma" THEN TrailingComma(act, value)
        ELSE SingleQuoted(act, value))
    \o (IF prose THEN <<" ","o","k">> ELSE <<>>)

\* try_extract_json is about to be called on a malformed reply.
ParseInit ==
    /\ LoopIdle
    /\ input \in [form : {"trailing_comma", "single_quotes"},
                  act : {s_run_command, s_report_flag, s_finish},
                  value : Texts(ValueAlphabet, MaxValueLen),
                  prose : BOOLEAN]
    /\ output = NoOutput

\* The call returns; want is what the well-formed text decodes to.
ParseCall ==
    /\ output = NoOutput
    /\ output' =
          [got |-> try_extract_json(
                      Malformed(input.form, input.act, input.value, input.prose)),
           want |-> try_extract_json(WellFormed(input.act, input.value))]
    /\ UNCHANGED <<loop_vars, input>>

SpecParse == ParseInit /\ [][ParseCall]_vars

\* C14 as stated: a reply with a trailing comma before the closing brace,
\* or written with single quotes only, bare or inside prose, decodes to the
\* action of its well-formed equivalent: the same type and the same command
\* or message.
C14_RepairedEqualsWellFormed ==
    output # NoOutput =>
        /\ output.want.k = "dict"
        /\ output.got.k = "dict"
        /\ ActType(output.got) = ActType(output.want)
        /\ DictGet(output.got, PayloadKey(input.act), None)
              = DictGet(output.want, PayloadKey(input.act), None)

\* C15: a recorded flag adds exactly one entry to flags_found, under a key
\* that was not there, with a non-empty value, and leaves every earlier
\* entry as it was; a report whose message is empty after stripping appends
\* one user message and leaves flags_found unchanged, and so does every turn
\* that records no flag.
C15_ReportsAppend ==
    [][calls' = calls + 1 =>
          /\ outcome' = "flag_recorded" =>
                /\ DictLen(flags_found') = DictLen(flags_found) + 1
                /\ \A key \in DOMAIN flags_found :
                      /\ key \in DOMAIN flags_found'
                      /\ flags_found'[key] = flags_found[key]
                /\ \A key \in DOMAIN flags_found' \ DOMAIN flags_found :
                      flags_found'[key] # <<>>
          /\ outcome' = "flag_empty" =>
                /\ pc' = "loop"
                /\ messages' = Append(messages, "user")
          /\ outcome' # "flag_recorded" => flags_found' = flags_found]_vars

\* The same flag text recorded twice: two entries with equal values.
C15_Witness ==
    /\ outcome = "flag_recorded"
    /\ DictLen(flags_found) = 2
    /\ flags_found[1] = flags_found[2]

\* C16: while the initial listing is required, a turn that hands a command
\* to the shell hands it "ls -1", and whatever subprocess.run does with it
\* the turn opens the gate, sets discovered_projects and goes on; a turn
\* that hands nothing to the shell leaves the gate closed.
C16_ListingAlwaysDiscovers ==
    [][(must_run_initial_ls /\ calls' = calls + 1) =>
          /\ executed' # executed =>
                /\ executed' = <<s_ls>>
                /\ ~must_run_initial_ls'
                /\ discovered_projects'.k = "list"
                /\ outcome' = "discovered"
                /\ pc' = "loop"
          /\ executed' = executed =>
                /\ must_run_initial_ls'
                /\ outcome' # "discovered"]_vars

\* The first turn ran "ls -1" and set discovered_projects, although the
\* listing named none of the projects that exist (its output was empty or
\* partial, as after a timeout or an error).
C16_Witness ==
    /\ outcome = "discovered"
    /\ calls = 1
    /\ ~must_run_initial_ls
    /\ discovered_projects = PyList(<<>>)
    /\ files = MarkerPaths

----------------------------------------------------------------------------
(* Project discovery on its own.                                           *)

\* Longest listing drawn from ListingAlphabet.
MaxListingLen == 3

\* Characters of a listing: two names, the line break and the blank.
ListingAlphabet == {"a", "b", "\n", " "}

\* The listing of three directories a, b and c.
LISTING_A_B_C == <<"a", "\n", "b", "\n", "c">>

\* The marker files that may exist in a, b and c.
ListingMarkerPaths ==
    {PathJoin(d, m) : d \in {<<"a">>, <<"b">>, <<"c">>},
                      m \in {s_flag_txt, s_challenge_json}}

\* The discovery is about to run on the output of "ls -1", fs being the
\* files that exist.
DiscoverInit ==
    /\ LoopIdle
    /\ input \in [files_text : Texts(ListingAlphabet, MaxListingLen)
                                  \cup {LISTING_A_B_C},
                  fs : SUBSET ListingMarkerPaths]
    /\ output = NoOutput

\* discovered_projects has been computed.
DiscoverCall ==
    /\ output = NoOutput
    /\ output' = PyList(DiscoverProjects(input.files_text, input.fs))
    /\ UNCHANGED <<loop_vars, input>>

SpecDiscover == DiscoverInit /\ [][DiscoverCall]_vars

\* C17: the discovered projects are exactly the entries e such that e is
\* the stripped, non-empty text of a line of the listing (a stretch without
\* line break that begins the text or follows a break, and ends the text or
\* precedes a break) and both e/flag.txt and e/challenge.json exist.
C17_DiscoveryExact ==
    output # NoOutput =>
        LET t == input.files_text
            IsBreak(i) == t[i] \in {"\n", "\r"}
            IsLine(i, j) ==
                /\ i <= j + 1
                /\ \A k \in i..j : ~IsBreak(k)
                /\ i = 1 \/ IsBreak(i - 1)
                /\ j = Len(t) \/ IsBreak(j + 1)
            Lines == {SubSeq(t, p[1], p[2]) :
                        p \in {q \in (1..(Len(t) + 1)) \X (0..Len(t)) :
                                  IsLine(q[1], q[2])}}
            Entries == {Strip(line) : line \in Lines} \ {<<>>}
        IN  /\ output.k = "list"
            /\ Range(output.v) =
                  {e \in Entries :
                      /\ e \o <<"/">> \o s_flag_txt \in input.fs
                      /\ e \o <<"/">> \o s_challenge_json \in input.fs}

\* The listing a, b, c where a and c hold both files and b holds only
\* flag.txt: a and c are discovered.
C17_Witness ==
    /\ output = PyList(<< <<"a">>, <<"c">> >>)
    /\ input.files_text = LISTING_A_B_C
    /\ input.fs = ListingMarkerPaths \ {<<"b","/">> \o s_challenge_json}

----------------------------------------------------------------------------
(* The textual repairs on their own.                                       *)

\* Longest text between the braces of a candidate block.
MaxBodyLen == 3

\* Characters between the braces.
BodyAlphabet == {"a", " ", ",", "]", SQ, DQ}

\* The repairs are about to be applied to candidate = raw[start:end+1],
\* which begins with "{" and ends with "}".
RepairInit ==
    /\ LoopIdle
    /\ input \in {<<"{">> \o body \o <<"}">> :
                     body \in Texts(BodyAlphabet, MaxBodyLen)}
    /\ output = NoOutput

\* The repairs have been applied once, and once more to the result.
RepairCall ==
    /\ output = NoOutput
    /\ output' = [once |-> Repair(input), twice |-> Repair(Repair(input))]
    /\ UNCHANGED <<loop_vars, input>>

SpecRepair == RepairInit /\ [][RepairCall]_vars

\* C18 as stated: repairing a candidate twice gives the same text as
\* repairing it once.
C18_RepairIdempotent ==
    output # NoOutput => output.twice = output.once

\* C19: between turns, must_run_initial_ls is false exactly when
\* discovered_projects is not None.
C19_GateAgreesWithDiscovery ==
    must_run_initial_ls <=> discovered_projects.k = "none"

\* The gate is open and both projects are recorded.
C19_Witness ==
    /\ ~must_run_initial_ls
    /\ discovered_projects.k = "list"
    /\ Len(discovered_projects.v) = 2
    /\ pc = "loop"

\* C20 as stated: once a finish would be accepted (discovered_projects set
\* and at least as many flags as projects), it would be accepted after
\* every later turn.
C20_FinishLegalityStable ==
    [][(/\ discovered_projects.k = "list"
        /\ DictLen(flags_found) >= Len(discovered_projects.v)) =>
          /\ discovered_projects'.k = "list"
          /\ DictLen(flags_found') >= Len(discovered_projects'.v)]_vars

====
